---- MODULE Spec2Model ----
(***************************************************************************)
(* Model of app.py: a Flask REST API over the PRODUCT_EMBEDDINGS table of  *)
(* a SAP HANA database.  The model covers the process environment read by  *)
(* hana_cfg, the retry loop of connect_hana, the api_ok error envelope and *)
(* the handlers health, tls_test, list_products, insert_product,           *)
(* update_product and delete_product.                                      *)
(*                                                                         *)
(* A request slot r holds one request from the moment it is dispatched     *)
(* until its response has been delivered.  Each dial, each sleep, each SQL *)
(* statement with its fetch, and each commit with the close and response   *)
(* that follow it is one step.  req[r].log, calls, sql, closes, before and *)
(* exc.origin are history: the code never reads them.                      *)
(***************************************************************************)
EXTENDS Integers, Sequences, FiniteSets, TLC

\* ---------------------------------------------------------------- bounds
MaxRetries == 3       \* largest retries argument of a direct connect_hana call
MaxBackoff == 2       \* largest backoff argument of a direct connect_hana call
MaxRows == 2          \* rows the table may hold
MaxId == 3            \* largest PRODUCT_ID an insert may produce

\* ------------------------------------------------------- program constants
DefaultRetries == 3
DefaultBackoff == 1
DefaultPort == 443

\* Request slots: the threads of the server that can hold a request.
Reqs == {1, 2}

\* Python's None for a string-valued slot (an unset environment variable, an
\* absent JSON key read through dict.get, a JSON null).
None == "<None>"

Names == {"a", "b"}
Descs == {"", "d"}

VARIABLES
    dbapi,      \* TRUE iff "from hdbcli import dbapi" succeeded (lines 8-11)
    environ,    \* os.environ, the variables hana_cfg reads
    threaded,   \* TRUE iff the server handles requests concurrently
    flaky,      \* TRUE iff a call of dbapi.connect may fail
    table,      \* rows of PRODUCT_EMBEDDINGS, in insertion order
    req         \* req[r]: the request in slot r and the locals of its handler

vars == <<dbapi, environ, threaded, flaky, table, req>>

\* ------------------------------------------------------ exception classes
\* The Python classes that occur, all subclasses of Exception, and their
\* subclass relation: RecursionError derives from RuntimeError.
ExceptionClasses ==
    {"RuntimeError", "RecursionError", "ValueError", "AttributeError",
     "BadRequest", "Error", "OSError"}

IsSubclass(cls, base) ==
    \/ cls = base
    \/ cls = "RecursionError" /\ base = "RuntimeError"
    \/ cls \in ExceptionClasses /\ base = "Exception"

\* line 52: except RuntimeError
IsRuntimeError(cls) == IsSubclass(cls, "RuntimeError")

\* Classes the dial primitive dbapi.connect raises in the model.
DialErrorClasses == {"Error", "OSError"}

\* An exception object.  cls is its Python class.  origin records the raise
\* site (history only, the code never reads it).  retries/lastcls/lastat are
\* the values interpolated into the message of line 45.
NoExc ==
    [cls |-> "None", origin |-> "none", retries |-> 0,
     lastcls |-> "None", lastat |-> 0]

Exc(cls, origin) ==
    [cls |-> cls, origin |-> origin, retries |-> 0,
     lastcls |-> "None", lastat |-> 0]

\* line 28
DriverMissingError == Exc("RuntimeError", "driver_missing")

\* line 31
ConfigMissingError == Exc("RuntimeError", "config_missing")

\* lines 44-45: the message carries retries and the last underlying error.
UnableToConnectError(retries, last) ==
    [cls |-> "RuntimeError", origin |-> "retries_exhausted",
     retries |-> retries, lastcls |-> last.cls, lastat |-> last.at]

\* ------------------------------------------------------------- hana_cfg
\* int(s) for the strings HANA_PORT takes in the model.
IntParses(s) == s \in {"30015"}

IntOf(s) == IF s = "30015" THEN 30015 ELSE 0

NoCfg == [address |-> None, port |-> 0, user |-> None, password |-> None]

\* lines 16-24: raises ValueError iff HANA_PORT is set and is not an integer.
HanaCfgRaises(env) == env.HANA_PORT # None /\ ~IntParses(env.HANA_PORT)

HanaCfg(env) ==
    [address |-> env.HANA_ADDRESS,
     port |-> IF env.HANA_PORT = None THEN DefaultPort ELSE IntOf(env.HANA_PORT),
     user |-> env.HANA_USER,
     password |-> env.HANA_PASSWORD]

\* Python truthiness of an optional string: "not s".
Falsy(s) == s = None \/ s = ""

\* A check that forgets the credentials.
ConfigMissing_AddressOnly(cfg) == Falsy(cfg.address)

\* line 30
ConfigMissing(cfg) ==
    Falsy(cfg.address) \/ Falsy(cfg.user) \/ Falsy(cfg.password)

\* ------------------------------------------------------------- responses
\* A key a JSON object does not have.
Absent == "<absent>"

\* The dict "out" of tls_test (line 73) before any probe has written to it.
NoOut ==
    [host |-> None, port |-> 0, tcp |-> Absent, tcp_error |-> Absent,
     tls_cipher |-> Absent, tls_error |-> Absent]

\* A response: the HTTP status (0: none yet) and the keys of the JSON body.
NoResp ==
    [status |-> 0, error |-> "", message |-> NoExc, trace |-> <<>>,
     ok |-> FALSE, product_id |-> 0, rows_affected |-> -1, products |-> <<>>,
     hdbcli_installed |-> FALSE, hana_cfg_present |-> FALSE, out |-> NoOut]

\* An envelope without the except RuntimeError clause.
ApiOkStatus_Always500(e) == 500

\* lines 47-56: the except clauses of api_ok, in order.
ApiOkStatus(e) == IF IsRuntimeError(e.cls) THEN 502 ELSE 500

ApiOkError(e) == IF IsRuntimeError(e.cls) THEN "connection_error" ELSE "internal"

ApiOk(e) ==
    [NoResp EXCEPT !.status = ApiOkStatus(e),
                   !.error = ApiOkError(e),
                   !.message = e,
                   !.trace = IF IsRuntimeError(e.cls) THEN <<>> ELSE <<e.cls>>]

\* ------------------------------------------------------------- requests
\* What request.get_json(force=True) finds in the request body: a JSON object,
\* text that is not JSON, JSON nested deeper than the recursion limit, or a
\* JSON value that is not an object (null, a list, a number).
BodyKinds == {"object", "malformed", "deep", "non_object"}

\* A JSON object with the keys the handlers read; Absent marks a missing key
\* and None a JSON null.
NoPayload == [name |-> Absent, description |-> Absent]

Payloads ==
    [name : {Absent, None, ""} \cup Names,
     description : {Absent, None} \cup Descs]

\* dict.get(key, default)
Get(payload, key, default) ==
    IF payload[key] = Absent THEN default ELSE payload[key]

NoErr == [cls |-> "None", at |-> 0]

Idle ==
    [kind |-> "idle", pc |-> "idle",
     body |-> "none", payload |-> NoPayload, path |-> None,
     name |-> None, description |-> None,
     retries |-> 0, backoff |-> 0, i |-> 0, last |-> NoErr,
     cfg |-> NoCfg, log |-> <<>>,
     calls |-> 0, conn |-> "none", closes |-> 0, sql |-> 0,
     max_id |-> 0, new_id |-> 0, rows |-> 0, before |-> <<>>,
     exc |-> NoExc, resp |-> NoResp]

\* Kinds whose handler is wrapped by api_ok.
Wrapped(kind) == kind \in {"tls_test", "list", "insert", "update", "delete"}

\* An exception e leaves the handler of request rq: api_ok turns it into a
\* response; a direct call of connect_hana hands it to the caller.
Raised(rq, e) ==
    IF Wrapped(rq.kind)
    THEN [rq EXCEPT !.exc = e, !.resp = ApiOk(e), !.pc = "done"]
    ELSE [rq EXCEPT !.exc = e, !.pc = "done"]

\* ---------------------------------------------------------------- Init
EnvValues == {None, "", "x"}
PortValues == {None, "30015", "abc"}

Init ==
    /\ dbapi \in BOOLEAN
    /\ environ \in [HANA_ADDRESS : EnvValues, HANA_PORT : PortValues,
                    HANA_USER : EnvValues, HANA_PASSWORD : EnvValues]
    /\ threaded = FALSE
    /\ flaky = TRUE
    /\ table = <<>>
    /\ req = [r \in Reqs |-> Idle]

\* ------------------------------------------------------------- the table
\* A row of PRODUCT_EMBEDDINGS.
Row(id, name, description) ==
    [product_id |-> id, name |-> name, description |-> description,
     vector |-> None]

Max(S) == CHOOSE x \in S : \A y \in S : y <= x

Ids(t) == {t[k].product_id : k \in DOMAIN t}

\* An identifier query that counts the rows instead of taking the maximum.
SelectMax_Count(t) == IF t = <<>> THEN <<>> ELSE <<Len(t)>>

\* line 108: SELECT MAX(PRODUCT_ID); the one column of the one row fetched,
\* <<>> for SQL NULL (empty table) and <<m>> otherwise.
SelectMax(t) == IF t = <<>> THEN <<>> ELSE <<Max(Ids(t))>>

\* line 109: r[0] if r and r[0] is not None else 0
MaxIdOrZero(r0) == IF r0 = <<>> THEN 0 ELSE r0[1]

\* An identifier that reuses the maximum.
NewId_Same(max_id) == max_id

\* line 110
NewId(max_id) == max_id + 1

\* An INSERT that replaces the row holding the same PRODUCT_ID, as a table
\* with a primary key on PRODUCT_ID and an upsert would.
InsertRow_Upsert(t, new_id, name, description) ==
    Append(SelectSeq(t, LAMBDA row : row.product_id # new_id),
           Row(new_id, name, description))

\* line 111-112: INSERT ... VALUES (new_id, name, description, None)
InsertRow(t, new_id, name, description) ==
    Append(t, Row(new_id, name, description))

Matching(t, name) == {k \in DOMAIN t : t[k].name = name}

\* An UPDATE without its WHERE clause.
UpdateRows_NoWhere(t, description, name) ==
    [k \in DOMAIN t |-> [t[k] EXCEPT !.description = description]]

\* line 124: UPDATE ... SET DESCRIPTION = ? WHERE NAME = ?
UpdateRows(t, description, name) ==
    [k \in DOMAIN t |->
        IF t[k].name = name THEN [t[k] EXCEPT !.description = description]
        ELSE t[k]]

\* line 132: DELETE ... WHERE NAME = ?
KeepOther(t, name, row) == row.name # name

DeleteRows(t, name) == SelectSeq(t, LAMBDA row : KeepOther(t, name, row))

\* A row count that reports whether any row matched, not how many.
RowCount_AtMostOne(t, name) == IF Matching(t, name) = {} THEN 0 ELSE 1

\* cur.rowcount after the UPDATE or DELETE (lines 125, 133)
RowCount(t, name) == Cardinality(Matching(t, name))

\* line 95: ORDER BY PRODUCT_ID, an insertion sort that keeps insertion order
\* among rows of equal PRODUCT_ID.
RECURSIVE InsertSorted(_, _)
InsertSorted(s, row) ==
    IF s = <<>> THEN <<row>>
    ELSE IF s[Len(s)].product_id <= row.product_id THEN Append(s, row)
    ELSE Append(InsertSorted(SubSeq(s, 1, Len(s) - 1), row), s[Len(s)])

RECURSIVE OrderById(_)
OrderById(t) ==
    IF t = <<>> THEN <<>>
    ELSE InsertSorted(OrderById(SubSeq(t, 1, Len(t) - 1)), t[Len(t)])

\* line 98: the JSON object made of each fetched row.
Product(row) ==
    [product_id |-> row.product_id, name |-> row.name,
     description |-> row.description]

Products(rows) == [k \in DOMAIN rows |-> Product(rows[k])]

\* ------------------------------------------------------------- dispatch
\* Inserts that have not executed their INSERT statement yet.
PendingInserts ==
    {r \in Reqs : req[r].kind = "insert" /\ req[r].pc \notin {"idle", "done", "commit"}}

\* The model is bounded: an insert is accepted only while the table has room
\* for its row and for the identifier it may compute.
RoomForInsert ==
    /\ Len(table) + Cardinality(PendingInserts) < MaxRows
    /\ MaxIdOrZero(SelectMax(table)) + Cardinality(PendingInserts) < MaxId

\* No request is being served.
Quiet == \A r \in Reqs : req[r].pc = "idle"

\* A new request goes to the first free slot; a server that is not threaded
\* takes it only when no other request is being served.
Admit(r) ==
    /\ req[r].pc = "idle"
    /\ \A q \in Reqs : q < r => req[q].pc # "idle"
    /\ ~threaded => Quiet

FirstPc(kind) ==
    CASE kind \in {"insert", "update"} -> "parse"
      [] kind \in {"connect", "list", "delete"} -> "connect"
      [] OTHER -> "run"

New(kind) == [Idle EXCEPT !.kind = kind, !.pc = FirstPc(kind), !.before = table]

\* A caller invokes connect_hana(retries, backoff) directly.
DispatchConnect(r) ==
    /\ Admit(r)
    /\ \E n \in 0..MaxRetries, b \in 1..MaxBackoff :
          req' = [req EXCEPT ![r] = [New("connect") EXCEPT !.retries = n, !.backoff = b]]
    /\ UNCHANGED <<dbapi, environ, threaded, flaky, table>>

\* GET /health, GET /tls-test, GET /products
DispatchGet(r) ==
    /\ Admit(r)
    /\ \E k \in {"health", "tls_test", "list"} :
          req' = [req EXCEPT ![r] = New(k)]
    /\ UNCHANGED <<dbapi, environ, threaded, flaky, table>>

\* POST /product
DispatchInsert(r) ==
    /\ Admit(r)
    /\ RoomForInsert
    /\ \E b \in BodyKinds, p \in Payloads :
          /\ b # "object" => p = NoPayload
          /\ req' = [req EXCEPT ![r] = [New("insert") EXCEPT !.body = b, !.payload = p]]
    /\ UNCHANGED <<dbapi, environ, threaded, flaky, table>>

\* PUT /product/<name>
DispatchUpdate(r) ==
    /\ Admit(r)
    /\ \E n \in Names, b \in BodyKinds, p \in Payloads :
          /\ b # "object" => p = NoPayload
          /\ p.name = Absent
          /\ req' = [req EXCEPT ![r] =
                        [New("update") EXCEPT !.path = n, !.body = b, !.payload = p]]
    /\ UNCHANGED <<dbapi, environ, threaded, flaky, table>>

\* DELETE /product/<name>
DispatchDelete(r) ==
    /\ Admit(r)
    /\ \E n \in Names : req' = [req EXCEPT ![r] = [New("delete") EXCEPT !.path = n]]
    /\ UNCHANGED <<dbapi, environ, threaded, flaky, table>>

\* The response (or the result of the direct call) has been delivered and the
\* slot is free again.
Deliver(r) ==
    /\ req[r].pc = "done"
    /\ req' = [req EXCEPT ![r] = Idle]
    /\ UNCHANGED <<dbapi, environ, threaded, flaky, table>>

\* ------------------------------------------------------------- health
\* A health check that reports an unusable driver as a failure.
HealthResp_FailsWithoutDriver(installed, present) ==
    [NoResp EXCEPT !.status = IF installed THEN 200 ELSE 503,
                   !.ok = installed,
                   !.hdbcli_installed = installed, !.hana_cfg_present = present]

\* lines 60-64: the JSON body; jsonify answers 200.
HealthResp(installed, present) ==
    [NoResp EXCEPT !.status = 200, !.ok = TRUE,
                   !.hdbcli_installed = installed, !.hana_cfg_present = present]

\* lines 59-64
Health(r) ==
    /\ req[r].kind = "health" /\ req[r].pc = "run"
    /\ req' = [req EXCEPT ![r].pc = "done",
                          ![r].resp = HealthResp(dbapi, ~Falsy(environ.HANA_ADDRESS))]
    /\ UNCHANGED <<dbapi, environ, threaded, flaky, table>>

\* ------------------------------------------------------------- tls_test
\* lines 68-88: hana_cfg, then the TCP probe and the TLS probe, each with its
\* own try/except.
TlsOut(cfg, tcp_ok, tls_ok) ==
    [NoOut EXCEPT !.host = cfg.address, !.port = cfg.port,
                  !.tcp = IF tcp_ok THEN "ok" ELSE Absent,
                  !.tcp_error = IF tcp_ok THEN Absent ELSE "OSError",
                  !.tls_cipher = IF tls_ok THEN "cipher" ELSE Absent,
                  !.tls_error = IF tls_ok THEN Absent ELSE "OSError"]

TlsTest(r) ==
    /\ req[r].kind = "tls_test" /\ req[r].pc = "run"
    /\ IF HanaCfgRaises(environ)
       THEN req' = [req EXCEPT ![r] = Raised(req[r], Exc("ValueError", "hana_cfg"))]
       ELSE \E tcp_ok \in BOOLEAN, tls_ok \in BOOLEAN :
              req' = [req EXCEPT ![r].pc = "done",
                                 ![r].cfg = HanaCfg(environ),
                                 ![r].resp = [NoResp EXCEPT !.status = 200,
                                                 !.out = TlsOut(HanaCfg(environ), tcp_ok, tls_ok)]]
    /\ UNCHANGED <<dbapi, environ, threaded, flaky, table>>

\* ------------------------------------------------------------- connect_hana
\* The entries of a request's log: the calls of dbapi.connect and time.sleep
\* it has made, in order (history only).
DialEvent(at, ok, cls) ==
    [ev |-> "dial", at |-> at, ok |-> ok, cls |-> cls, delay |-> 0]

SleepEvent(at, delay) ==
    [ev |-> "sleep", at |-> at, ok |-> FALSE, cls |-> "None", delay |-> delay]

\* The arguments a call of connect_hana binds (line 26): the handlers call it
\* without arguments.
CallRetries(rq) == IF rq.kind = "connect" THEN rq.retries ELSE DefaultRetries

CallBackoff(rq) == IF rq.kind = "connect" THEN rq.backoff ELSE DefaultBackoff

\* A loop that never runs out of attempts.
InRange_Unbounded(i, retries) == 1 <= i

\* A loop over range(1, retries): one attempt short.
InRange_Exclusive(i, retries) == 1 <= i /\ i < retries

\* line 33: for i in range(1, retries+1)
InRange(i, retries) == 1 <= i /\ i <= retries

\* A loop that keeps the first error instead of the most recent one.
RecordLast_First(last, e) == IF last.cls = "None" THEN e ELSE last

\* line 42: last = e
RecordLast(last, e) == e

\* A sleep that does not grow with the attempt number.
SleepDelay_Constant(backoff, i) == backoff

\* line 43: time.sleep(backoff * i)
SleepDelay(backoff, i) == backoff * i

\* Where the caller continues once connect_hana has returned a session.
AfterConnect(kind) ==
    CASE kind = "list" -> "select"
      [] kind = "insert" -> "select_max"
      [] kind = "update" -> "update"
      [] kind = "delete" -> "delete"
      [] OTHER -> "done"

\* lines 27-33: the driver check, hana_cfg, the configuration check and the
\* entry of the loop.
ConnectEnter(r) ==
    /\ req[r].pc = "connect"
    /\ LET rq == [req[r] EXCEPT !.calls = req[r].calls + 1]
           n == CallRetries(req[r])
       IN req' = [req EXCEPT ![r] =
            IF ~dbapi THEN Raised(rq, DriverMissingError)
            ELSE IF HanaCfgRaises(environ) THEN Raised(rq, Exc("ValueError", "hana_cfg"))
            ELSE IF ConfigMissing(HanaCfg(environ))
                 THEN Raised([rq EXCEPT !.cfg = HanaCfg(environ)], ConfigMissingError)
            ELSE [rq EXCEPT !.cfg = HanaCfg(environ),
                            !.retries = n, !.backoff = CallBackoff(rq),
                            !.last = NoErr, !.i = 1,
                            !.pc = IF InRange(1, n) THEN "dial" ELSE "exhausted"]]
    /\ UNCHANGED <<dbapi, environ, threaded, flaky, table>>

\* lines 34-42: one call of dbapi.connect; it returns a session or raises.
Dial(r) ==
    /\ req[r].pc = "dial"
    /\ LET rq == req[r] IN
       \/ req' = [req EXCEPT ![r] =
                    [rq EXCEPT !.conn = "open",
                               !.log = Append(rq.log, DialEvent(rq.i, TRUE, "None")),
                               !.pc = AfterConnect(rq.kind)]]
       \/ \E cls \in DialErrorClasses :
             /\ flaky
             /\ req' = [req EXCEPT ![r] =
                    [rq EXCEPT !.last = RecordLast(rq.last, [cls |-> cls, at |-> rq.i]),
                               !.log = Append(rq.log, DialEvent(rq.i, FALSE, cls)),
                               !.pc = "sleep"]]
    /\ UNCHANGED <<dbapi, environ, threaded, flaky, table>>

\* line 43, then the next iteration of line 33.
Sleep(r) ==
    /\ req[r].pc = "sleep"
    /\ LET rq == req[r] IN
       req' = [req EXCEPT ![r] =
                [rq EXCEPT !.log = Append(rq.log, SleepEvent(rq.i, SleepDelay(rq.backoff, rq.i))),
                           !.i = rq.i + 1,
                           !.pc = IF InRange(rq.i + 1, rq.retries) THEN "dial"
                                  ELSE "exhausted"]]
    /\ UNCHANGED <<dbapi, environ, threaded, flaky, table>>

\* lines 44-45: with no attempt made last is None and line 44 itself raises
\* AttributeError; otherwise the RuntimeError of line 45.
Exhausted(r) ==
    /\ req[r].pc = "exhausted"
    /\ LET rq == req[r] IN
       req' = [req EXCEPT ![r] =
                IF rq.last = NoErr
                THEN Raised(rq, Exc("AttributeError", "format_exception"))
                ELSE Raised(rq, UnableToConnectError(rq.retries, rq.last))]
    /\ UNCHANGED <<dbapi, environ, threaded, flaky, table>>

\* ------------------------------------------------------------- parsing
\* request.get_json(force=True) and the first payload.get (lines 103-104,
\* 119-120): what they raise for a body, "None" when they raise nothing.
ParseRaises(body) ==
    CASE body = "malformed" -> "BadRequest"
      [] body = "deep" -> "RecursionError"
      [] body = "non_object" -> "AttributeError"
      [] OTHER -> "None"

\* A check that rejects a missing name but lets an empty one through.
NameMissing_NoneOnly(name) == name = None

\* line 105: not name
NameMissing(name) == Falsy(name)

\* A check by truthiness, which also rejects the empty string.
DescriptionMissing_Falsy(description) == Falsy(description)

\* line 121: description is None
DescriptionMissing(description) == description = None

ValidationError(code) == [NoResp EXCEPT !.status = 400, !.error = code]

\* lines 103-106
InsertParse(r) ==
    /\ req[r].kind = "insert" /\ req[r].pc = "parse"
    /\ LET rq == req[r]
           name == Get(rq.payload, "name", None)
           description == Get(rq.payload, "description", "")
       IN req' = [req EXCEPT ![r] =
            IF ParseRaises(rq.body) # "None"
            THEN Raised(rq, Exc(ParseRaises(rq.body), "parse"))
            ELSE IF NameMissing(name)
            THEN [rq EXCEPT !.name = name, !.description = description,
                            !.resp = ValidationError("name_required"), !.pc = "done"]
            ELSE [rq EXCEPT !.name = name, !.description = description,
                            !.pc = "connect"]]
    /\ UNCHANGED <<dbapi, environ, threaded, flaky, table>>

\* lines 119-122
UpdateParse(r) ==
    /\ req[r].kind = "update" /\ req[r].pc = "parse"
    /\ LET rq == req[r]
           description == Get(rq.payload, "description", None)
       IN req' = [req EXCEPT ![r] =
            IF ParseRaises(rq.body) # "None"
            THEN Raised(rq, Exc(ParseRaises(rq.body), "parse"))
            ELSE IF DescriptionMissing(description)
            THEN [rq EXCEPT !.description = description,
                            !.resp = ValidationError("description_required"),
                            !.pc = "done"]
            ELSE [rq EXCEPT !.description = description, !.pc = "connect"]]
    /\ UNCHANGED <<dbapi, environ, threaded, flaky, table>>

\* ------------------------------------------------------------- SQL steps
\* A statement, fetch or commit of the driver raises dbapi.Error; the
\* handlers have no try/finally, so the exception leaves the handler with the
\* session as it is.
\* A driver failure re-raised as a RuntimeError.
SqlError_AsRuntimeError == Exc("RuntimeError", "sql")

SqlError == Exc("Error", "sql")

\* cur.close(); conn.close() (lines 97, 113, 125, 133)
Closed(rq) == [rq EXCEPT !.conn = "closed", !.closes = rq.closes + 1]

Respond(rq, resp) == [rq EXCEPT !.resp = resp, !.pc = "done"]

\* lines 94-98: execute, fetchall, close, respond.
ListSelect(r) ==
    /\ req[r].kind = "list" /\ req[r].pc = "select"
    /\ LET rq == [req[r] EXCEPT !.sql = req[r].sql + 1] IN
       \/ req' = [req EXCEPT ![r] = Raised(rq, SqlError)]
       \/ req' = [req EXCEPT ![r] =
                    Respond(Closed(rq),
                            [NoResp EXCEPT !.status = 200,
                                           !.products = Products(OrderById(table))])]
    /\ UNCHANGED <<dbapi, environ, threaded, flaky, table>>

\* lines 108-110: SELECT MAX(PRODUCT_ID), fetchone, new_id.
InsertSelectMax(r) ==
    /\ req[r].kind = "insert" /\ req[r].pc = "select_max"
    /\ LET rq == [req[r] EXCEPT !.sql = req[r].sql + 1]
           m == MaxIdOrZero(SelectMax(table))
       IN
       \/ req' = [req EXCEPT ![r] = Raised(rq, SqlError)]
       \/ req' = [req EXCEPT ![r] =
                    [rq EXCEPT !.max_id = m, !.new_id = NewId(m), !.pc = "insert"]]
    /\ UNCHANGED <<dbapi, environ, threaded, flaky, table>>

\* lines 111-112: the INSERT statement (the driver commits each statement).
InsertExecute(r) ==
    /\ req[r].kind = "insert" /\ req[r].pc = "insert"
    /\ LET rq == [req[r] EXCEPT !.sql = req[r].sql + 1] IN
       \/ /\ req' = [req EXCEPT ![r] = Raised(rq, SqlError)]
          /\ table' = table
       \/ /\ req' = [req EXCEPT ![r] = [rq EXCEPT !.rows = 1, !.pc = "commit"]]
          /\ table' = InsertRow(table, rq.new_id, rq.name, rq.description)
    /\ UNCHANGED <<dbapi, environ, threaded, flaky>>

\* line 124: the UPDATE statement.
UpdateExecute(r) ==
    /\ req[r].kind = "update" /\ req[r].pc = "update"
    /\ LET rq == [req[r] EXCEPT !.sql = req[r].sql + 1] IN
       \/ /\ req' = [req EXCEPT ![r] = Raised(rq, SqlError)]
          /\ table' = table
       \/ /\ req' = [req EXCEPT ![r] =
                       [rq EXCEPT !.rows = RowCount(table, rq.path), !.pc = "commit"]]
          /\ table' = UpdateRows(table, rq.description, rq.path)
    /\ UNCHANGED <<dbapi, environ, threaded, flaky>>

\* line 132: the DELETE statement.
DeleteExecute(r) ==
    /\ req[r].kind = "delete" /\ req[r].pc = "delete"
    /\ LET rq == [req[r] EXCEPT !.sql = req[r].sql + 1] IN
       \/ /\ req' = [req EXCEPT ![r] = Raised(rq, SqlError)]
          /\ table' = table
       \/ /\ req' = [req EXCEPT ![r] =
                       [rq EXCEPT !.rows = RowCount(table, rq.path), !.pc = "commit"]]
          /\ table' = DeleteRows(table, rq.path)
    /\ UNCHANGED <<dbapi, environ, threaded, flaky>>

\* The body of the success response of each writing handler.
Created(new_id) == [NoResp EXCEPT !.status = 201, !.ok = TRUE, !.product_id = new_id]

Affected(rows) == [NoResp EXCEPT !.status = 200, !.ok = TRUE, !.rows_affected = rows]

\* lines 113-114, 125-126, 133-134: commit, rowcount, close, respond.
Commit(r) ==
    /\ req[r].pc = "commit"
    /\ LET rq == req[r] IN
       \/ req' = [req EXCEPT ![r] = Raised(rq, SqlError)]
       \/ req' = [req EXCEPT ![r] =
                    Respond(Closed(rq),
                            IF rq.kind = "insert" THEN Created(rq.new_id)
                            ELSE Affected(rq.rows))]
    /\ UNCHANGED <<dbapi, environ, threaded, flaky, table>>

\* ------------------------------------------------------------- specification
\* One step of the handler of request r.
Step(r) ==
    \/ Health(r)
    \/ TlsTest(r)
    \/ ConnectEnter(r)
    \/ Dial(r)
    \/ Sleep(r)
    \/ Exhausted(r)
    \/ InsertParse(r)
    \/ UpdateParse(r)
    \/ ListSelect(r)
    \/ InsertSelectMax(r)
    \/ InsertExecute(r)
    \/ UpdateExecute(r)
    \/ DeleteExecute(r)
    \/ Commit(r)
    \/ Deliver(r)

Dispatch(r) ==
    \/ DispatchConnect(r)
    \/ DispatchGet(r)
    \/ DispatchInsert(r)
    \/ DispatchUpdate(r)
    \/ DispatchDelete(r)

Next == \E r \in Reqs : Step(r) \/ Dispatch(r)

Spec == Init /\ [][Next]_vars

\* Direct calls of connect_hana alone.  A call whose dial and sleep calls
\* return keeps running: the steps of connect_hana are weakly fair.
ConnectStep(r) == ConnectEnter(r) \/ Dial(r) \/ Sleep(r) \/ Exhausted(r)

NextConnect == \E r \in Reqs : DispatchConnect(r) \/ ConnectStep(r) \/ Deliver(r)

SpecConnect ==
    Init /\ [][NextConnect]_vars /\ \A r \in Reqs : WF_vars(ConnectStep(r))

\* The threaded server under a load of POST /product requests, with the
\* driver installed, address and credentials set and a database that accepts
\* every connection: a request is admitted while another one is being
\* served, and their steps interleave.
InitThreaded ==
    /\ dbapi = TRUE
    /\ environ \in [HANA_ADDRESS : {"x"}, HANA_PORT : PortValues,
                    HANA_USER : {"x"}, HANA_PASSWORD : {"x"}]
    /\ threaded = TRUE
    /\ flaky = FALSE
    /\ table = <<>>
    /\ req = [r \in Reqs |-> Idle]

InsertStep(r) ==
    \/ InsertParse(r)
    \/ ConnectEnter(r)
    \/ Dial(r)
    \/ InsertSelectMax(r)
    \/ InsertExecute(r)
    \/ Commit(r)
    \/ Deliver(r)

NextThreaded == \E r \in Reqs : DispatchInsert(r) \/ InsertStep(r)

SpecThreaded == InitThreaded /\ [][NextThreaded]_vars

\* ------------------------------------------------------------- properties
\* The calls of dbapi.connect and of time.sleep a request has made.
IsDial(e) == e.ev = "dial"

IsSleep(e) == e.ev = "sleep"

IsFailedDial(e) == e.ev = "dial" /\ ~e.ok

Dials(rq) == SelectSeq(rq.log, IsDial)

Sleeps(rq) == SelectSeq(rq.log, IsSleep)

FailedDials(rq) == SelectSeq(rq.log, IsFailedDial)

\* A mandatory variable of the environment is unset or empty.
EnvMissing ==
    \E k \in {"HANA_ADDRESS", "HANA_USER", "HANA_PASSWORD"} : environ[k] \in {None, ""}

\* hana_cfg returns a configuration (HANA_PORT is unset or an integer).
PortOk == environ.HANA_PORT \in {None, "30015"}

\* The raise sites the specification calls Configuration Error and Connection
\* Error.
ConfigurationOrigins == {"driver_missing", "config_missing"}

ConnectionOrigins == ConfigurationOrigins \cup {"retries_exhausted"}

Handlers == {"list", "insert", "update", "delete"}

\* C1: when address, user or password is missing or empty, a call of
\* connect_hana ends with a Configuration Error and has made no dial attempt
\* and no sleep, whatever retries and backoff are.  (Zero dials and sleeps
\* hold even where hana_cfg itself fails on a malformed HANA_PORT; the error
\* kind is stated for the configurations hana_cfg returns.)
C1_ConfigErrorBeforeDial ==
    \A r \in Reqs :
        (req[r].calls > 0 /\ EnvMissing) =>
            /\ req[r].pc = "done"
            /\ req[r].log = <<>>
            /\ req[r].conn = "none"
            /\ req[r].exc.cls # "None"
            /\ (~dbapi \/ PortOk) =>
                  /\ req[r].exc.origin \in ConfigurationOrigins
                  /\ req[r].exc.cls = "RuntimeError"

C1_Witness ==
    \E r \in Reqs :
        /\ req[r].kind = "connect" /\ req[r].calls > 0
        /\ dbapi /\ environ.HANA_ADDRESS = "x" /\ environ.HANA_USER = ""
        /\ req[r].exc.origin = "config_missing"
        /\ req[r].log = <<>>

\* C2: with retries = 3, when connect_hana has returned a session after k
\* failed dials, k is 0, 1 or 2, the successful dial is attempt k+1 and is the
\* last call made, and the log is exactly: failed attempt 1, sleep backoff*1,
\* ..., failed attempt k, sleep backoff*k, successful attempt k+1.
C2_RetryThenSucceed ==
    \A r \in Reqs :
        (req[r].conn # "none" /\ req[r].retries = 3) =>
            LET rq == req[r]
                k == Len(FailedDials(rq))
            IN /\ k \in {0, 1, 2}
               /\ Len(rq.log) = 2 * k + 1
               /\ rq.log[2 * k + 1] = DialEvent(k + 1, TRUE, "None")
               /\ Len(Sleeps(rq)) = k
               /\ \A j \in 1..k :
                     /\ IsFailedDial(rq.log[2 * j - 1]) /\ rq.log[2 * j - 1].at = j
                     /\ rq.log[2 * j] = SleepEvent(j, rq.backoff * j)

C2_Witness ==
    \E r \in Reqs :
        /\ req[r].kind = "connect" /\ req[r].retries = 3 /\ req[r].backoff = 2
        /\ req[r].pc = "done" /\ req[r].conn = "open"
        /\ Len(FailedDials(req[r])) = 2
        /\ Len(Sleeps(req[r])) = 2

\* C3: with retries = 3, when connect_hana has ended without a session after
\* at least one dial, it has made exactly 3 dial attempts, numbered 1, 2, 3,
\* all failed, and has raised the Connection Error whose message carries the
\* count 3 and the error of the third attempt.
C3_ExhaustedCarriesLast ==
    \A r \in Reqs :
        (req[r].pc = "done" /\ req[r].retries = 3 /\ req[r].conn = "none"
            /\ req[r].log # <<>>) =>
            LET rq == req[r]
                d == Dials(rq)
            IN /\ Len(d) = 3
               /\ \A j \in 1..3 : ~d[j].ok /\ d[j].at = j
               /\ rq.exc.origin = "retries_exhausted"
               /\ rq.exc.retries = 3
               /\ rq.exc.lastat = 3
               /\ rq.exc.lastcls = d[3].cls

C3_Witness ==
    \E r \in Reqs :
        /\ req[r].pc = "done" /\ req[r].retries = 3
        /\ req[r].exc.origin = "retries_exhausted"
        /\ Len(Dials(req[r])) = 3
        /\ Dials(req[r])[1].cls = "Error"
        /\ Dials(req[r])[3].cls = "OSError"
        /\ req[r].exc.lastcls = "OSError"

\* C4: when retries are exhausted with retries = 3, connect_hana has slept
\* exactly twice, with delays backoff*1 and backoff*2: one sleep fewer than
\* failed attempts, none after the last attempt.
C4_NoSleepAfterLastAttempt ==
    \A r \in Reqs :
        (req[r].exc.origin = "retries_exhausted" /\ req[r].retries = 3) =>
            /\ Len(Sleeps(req[r])) = 2
            /\ Len(Sleeps(req[r])) = Len(FailedDials(req[r])) - 1
            /\ req[r].log[Len(req[r].log)].ev = "dial"

\* C5: a resource handler that has answered and had opened a session has
\* closed it exactly once.
C5_SessionClosedOnEveryPath ==
    \A r \in Reqs :
        (req[r].kind \in Handlers /\ req[r].pc = "done" /\ req[r].conn # "none") =>
            req[r].conn = "closed" /\ req[r].closes = 1

\* C6: a Configuration Error or Connection Error raised in a handler wrapped
\* by api_ok is answered with status 502, error "connection_error" and the
\* message of the error.
C6_ConnectionErrorIs502 ==
    \A r \in Reqs :
        (Wrapped(req[r].kind) /\ req[r].exc.origin \in ConnectionOrigins) =>
            /\ req[r].pc = "done"
            /\ req[r].resp.status = 502
            /\ req[r].resp.error = "connection_error"
            /\ req[r].resp.message = req[r].exc
            /\ req[r].resp.message # NoExc

C6_Witness ==
    \E r \in Reqs :
        /\ req[r].kind = "list"
        /\ req[r].exc.origin = "retries_exhausted"
        /\ req[r].resp.status = 502

\* C7: every other failure raised in a wrapped handler is answered with
\* status 500, error "internal" and a non-empty trace, never with 502.
C7_OtherFailureIs500 ==
    \A r \in Reqs :
        (Wrapped(req[r].kind) /\ req[r].exc.cls # "None"
            /\ req[r].exc.origin \notin ConnectionOrigins) =>
            /\ req[r].resp.status = 500
            /\ req[r].resp.error = "internal"
            /\ req[r].resp.trace # <<>>

\* C8: the Connection Error raised after the retries has a kind of its own:
\* not the kind of the Configuration Errors, and no other error that reaches
\* the envelope is of its kind.
C8_ErrorKindsDistinct ==
    \A r \in Reqs :
        LET e == req[r].exc
            ConnectionErrorClass == UnableToConnectError(0, NoErr).cls
        IN /\ e.origin = "retries_exhausted" =>
                 e.cls \notin {DriverMissingError.cls, ConfigMissingError.cls}
           /\ (e.cls # "None" /\ e.origin # "retries_exhausted") =>
                 ~IsSubclass(e.cls, ConnectionErrorClass)

\* C9: POST /product with a JSON object whose name is absent, null or empty
\* is answered 400 "name_required" without a call of connect_hana, a dial or
\* an SQL statement.
C9_NameRequiredBeforeConnect ==
    \A r \in Reqs :
        (req[r].kind = "insert" /\ req[r].body = "object"
            /\ req[r].payload.name \in {Absent, None, ""}
            /\ req[r].pc # "parse") =>
            /\ req[r].pc = "done"
            /\ req[r].resp.status = 400
            /\ req[r].resp.error = "name_required"
            /\ req[r].calls = 0
            /\ req[r].log = <<>>
            /\ req[r].sql = 0
            /\ req[r].conn = "none"

C9_Witness ==
    \E r \in Reqs :
        /\ req[r].kind = "insert" /\ req[r].body = "object"
        /\ req[r].payload.name = ""
        /\ req[r].resp.status = 400
        /\ dbapi /\ ~EnvMissing /\ PortOk

\* C10: a POST /product served alone and answered 201 returns the identifier
\* max(existing identifiers) + 1, or 1 for an empty table, and has added the
\* row (identifier, name, description or "" when absent, null vector) to the
\* table as it was when the request arrived.
C10_InsertAssignsMaxPlusOne ==
    \A r \in Reqs :
        (req[r].kind = "insert" /\ req[r].pc = "done" /\ req[r].resp.status = 201) =>
            LET rq == req[r]
                id == IF rq.before = <<>> THEN 1 ELSE Max(Ids(rq.before)) + 1
                description == IF rq.payload.description = Absent THEN ""
                               ELSE rq.payload.description
            IN /\ rq.resp.product_id = id
               /\ table = Append(rq.before,
                                 [product_id |-> id, name |-> rq.payload.name,
                                  description |-> description, vector |-> None])

C10_Witness ==
    \E r \in Reqs :
        /\ req[r].kind = "insert" /\ req[r].resp.status = 201
        /\ req[r].payload.description = Absent
        /\ Len(req[r].before) = 1
        /\ req[r].before[1].product_id = 2
        /\ req[r].resp.product_id = 3

\* C12 as stated: PUT /product/<name> with a JSON object is answered 400
\* "description_required" exactly when the description key is absent.
C12_RequiredIffAbsent ==
    \A r \in Reqs :
        (req[r].kind = "update" /\ req[r].body = "object" /\ req[r].pc # "parse") =>
            ((req[r].resp.status = 400 /\ req[r].resp.error = "description_required")
                <=> req[r].payload.description = Absent)

\* C12 amended: PUT /product/<name> with a JSON object is answered 400
\* "description_required" exactly when the description key is absent or its
\* value is null; an empty-string description is accepted, and when the
\* request is answered 200 the rows of that name hold the empty description.
C12_RequiredIffAbsentOrNull ==
    \A r \in Reqs :
        (req[r].kind = "update" /\ req[r].body = "object" /\ req[r].pc # "parse") =>
            /\ (req[r].resp.status = 400 /\ req[r].resp.error = "description_required")
                  <=> req[r].payload.description \in {Absent, None}
            /\ req[r].payload.description = "" =>
                  /\ req[r].resp.status # 400
                  /\ req[r].resp.status = 200 =>
                        \A k \in DOMAIN table :
                            table[k].name = req[r].path => table[k].description = ""

C12_Witness ==
    \E r \in Reqs :
        /\ req[r].kind = "update" /\ req[r].payload.description = ""
        /\ req[r].resp.status = 200 /\ req[r].resp.rows_affected = 1
        /\ \E k \in DOMAIN req[r].before :
              req[r].before[k].name = req[r].path /\ req[r].before[k].description = "d"

\* C13: a PUT or DELETE answered 200 carries status "ok" and rows_affected
\* equal to the number of rows whose name equals the path parameter (0 when
\* none does), and it has acted on every such row: after the PUT each of them
\* holds the new description, after the DELETE none of them is left.
C13_ActsOnAllMatchingRows ==
    \A r \in Reqs :
        (req[r].kind \in {"update", "delete"} /\ req[r].pc = "done"
            /\ req[r].resp.status = 200) =>
            LET rq == req[r]
                n == Cardinality({k \in DOMAIN rq.before : rq.before[k].name = rq.path})
            IN /\ rq.resp.ok
               /\ rq.resp.error = ""
               /\ rq.resp.rows_affected = n
               /\ rq.kind = "update" =>
                     /\ Len(table) = Len(rq.before)
                     /\ \A k \in DOMAIN table :
                           table[k].name = rq.path =>
                               table[k].description = rq.payload.description
               /\ rq.kind = "delete" =>
                     /\ Len(table) = Len(rq.before) - n
                     /\ \A k \in DOMAIN table : table[k].name # rq.path

C13_Witness ==
    \E r \in Reqs :
        /\ req[r].kind = "delete" /\ req[r].resp.status = 200
        /\ Len(req[r].before) = 2
        /\ req[r].resp.rows_affected = 2
        /\ table = <<>>

\* C14: GET /tls-test is always answered 200 with a diagnostic object in
\* which the TCP probe has left either "tcp" or "tcp_error" and the TLS probe
\* either "tls_cipher" or "tls_error", whatever the other probe did; it is
\* never answered 502 or 500.
C14_TlsTestAlways200 ==
    \A r \in Reqs :
        (req[r].kind = "tls_test" /\ req[r].pc = "done") =>
            LET out == req[r].resp.out
            IN /\ req[r].resp.status = 200
               /\ (out.tcp = Absent) # (out.tcp_error = Absent)
               /\ (out.tls_cipher = Absent) # (out.tls_error = Absent)

\* C15: GET /health calls neither connect_hana nor the driver, opens no
\* session, runs no SQL and leaves the table alone, and its answer is 200
\* with the driver and address flags, whether or not the driver is installed
\* and whatever the environment holds.
C15_HealthNoDatabase ==
    \A r \in Reqs :
        req[r].kind = "health" =>
            /\ req[r].calls = 0 /\ req[r].log = <<>> /\ req[r].conn = "none"
            /\ req[r].sql = 0 /\ table = req[r].before
            /\ req[r].exc = NoExc
            /\ req[r].pc = "done" =>
                  /\ req[r].resp.status = 200
                  /\ req[r].resp.hdbcli_installed = dbapi
                  /\ req[r].resp.hana_cfg_present
                        = (environ.HANA_ADDRESS \notin {None, ""})

C15_Witness ==
    \E r \in Reqs :
        /\ req[r].kind = "health" /\ req[r].pc = "done"
        /\ ~dbapi /\ environ.HANA_ADDRESS = None /\ environ.HANA_PORT = "abc"
        /\ req[r].resp.status = 200

\* C16: in the loop of connect_hana an exception of the dial, of whichever
\* class, is caught: right after it the request is about to sleep and has
\* raised nothing; after the sleep of attempt j < retries the next attempt is
\* due; the call ends without a session only once retries attempts have been
\* made; and last always is the error of the most recent failed attempt,
\* which is the one the final error reports.
C16_DialErrorsAreRetried ==
    \A r \in Reqs :
        req[r].log # <<>> =>
            LET rq == req[r]
                d == Dials(rq)
                f == FailedDials(rq)
                e == rq.log[Len(rq.log)]
            IN /\ \A j \in DOMAIN d : d[j].at = j
               /\ Len(d) <= rq.retries
               /\ IsFailedDial(e) => rq.pc = "sleep" /\ rq.exc = NoExc
               /\ (IsSleep(e) /\ e.at < rq.retries) => rq.pc = "dial" /\ rq.exc = NoExc
               /\ rq.last = IF f = <<>> THEN NoErr
                            ELSE [cls |-> f[Len(f)].cls, at |-> f[Len(f)].at]
               /\ (rq.pc = "done" /\ rq.conn = "none") =>
                     /\ Len(d) = rq.retries
                     /\ rq.exc.origin = "retries_exhausted"
                     /\ rq.exc.lastcls = d[Len(d)].cls
                     /\ rq.exc.lastat = rq.retries

C16_Witness ==
    \E r \in Reqs :
        /\ req[r].kind = "connect" /\ req[r].retries = 2 /\ req[r].pc = "done"
        /\ req[r].exc.origin = "retries_exhausted"
        /\ Len(Dials(req[r])) = 2
        /\ Dials(req[r])[1].cls = "OSError"
        /\ Dials(req[r])[2].cls = "Error"
        /\ req[r].exc.lastcls = "Error"

\* C18: a list, insert, update or delete request answered 400 or 502 has
\* executed no SQL statement, holds no session, and the table is as it was
\* when the request arrived.
C18_RejectedRequestsTouchNothing ==
    \A r \in Reqs :
        (req[r].kind \in Handlers /\ req[r].pc = "done"
            /\ req[r].resp.status \in {400, 502}) =>
            /\ req[r].sql = 0
            /\ req[r].conn = "none"
            /\ table = req[r].before

C18_Witness ==
    \E r \in Reqs :
        /\ req[r].kind = "delete" /\ req[r].pc = "done"
        /\ req[r].resp.status = 502
        /\ req[r].exc.origin = "retries_exhausted"
        /\ \E k \in DOMAIN table : table[k].name = req[r].path

\* C19: a write answered with success changes only what it targets.  PUT:
\* same rows in the same order, product_id, name and vector of every row
\* unchanged, description changed only in rows of the given name.  DELETE:
\* the rows of other names remain, unchanged and in order, and nothing else.
\* POST: the old rows remain, unchanged and in order, followed by one new row.
C19_WritesChangeOnlyTargets ==
    \A r \in Reqs :
        (req[r].pc = "done" /\ req[r].resp.status \in {200, 201}) =>
            LET rq == req[r]
                b == rq.before
                Other(row) == row.name # rq.path
            IN /\ rq.kind = "update" =>
                     /\ Len(table) = Len(b)
                     /\ \A k \in DOMAIN b :
                           /\ table[k].product_id = b[k].product_id
                           /\ table[k].name = b[k].name
                           /\ table[k].vector = b[k].vector
                           /\ b[k].name # rq.path => table[k] = b[k]
               /\ rq.kind = "delete" => table = SelectSeq(b, Other)
               /\ rq.kind = "insert" =>
                     /\ Len(table) = Len(b) + 1
                     /\ SubSeq(table, 1, Len(b)) = b

C19_Witness ==
    \E r \in Reqs :
        /\ req[r].kind = "update" /\ req[r].resp.status = 200
        /\ req[r].path = "a" /\ req[r].payload.description = "d"
        /\ Len(table) = 2
        /\ table[1].name = "a" /\ table[1].description = "d"
        /\ table[2].name = "b" /\ table[2].description = ""
        /\ req[r].before[1].description = ""

\* C20: with requests served one at a time from the empty table, the
\* identifiers in the table are pairwise distinct in every state, and the
\* identifier an insert returns is greater than every identifier the table
\* held when the insert ran.
C20_IdsStayDistinct ==
    /\ Cardinality(Ids(table)) = Len(table)
    /\ \A r \in Reqs :
          (req[r].kind = "insert" /\ req[r].resp.status = 201) =>
              \A k \in DOMAIN req[r].before :
                  req[r].before[k].product_id < req[r].resp.product_id

C20_Witness ==
    \E r \in Reqs :
        /\ req[r].kind = "insert" /\ req[r].resp.status = 201
        /\ Len(table) = 2
        /\ table[1].product_id = 2 /\ table[2].product_id = 3

\* C17: every call of connect_hana ends: once entered it reaches its end,
\* with a session or with an error and not both.  At every moment it has made
\* at most retries dial attempts, numbered 1, 2, ... in order, and no two
\* attempts follow each other without the sleep of the first in between.
C17_ConnectTerminates ==
    /\ [](\A r \in Reqs :
            LET rq == req[r]
                d == Dials(rq)
            IN /\ Len(d) <= rq.retries
               /\ \A j \in DOMAIN d : d[j].at = j
               /\ \A k \in 1..(Len(rq.log) - 1) : rq.log[k].ev # rq.log[k + 1].ev
               /\ rq.pc = "done" => (rq.conn = "open") # (rq.exc # NoExc))
    /\ \A r \in Reqs : (req[r].pc = "connect") ~> (req[r].pc = "done")

C17_Witness ==
    \E r \in Reqs :
        /\ req[r].kind = "connect" /\ req[r].pc = "done"
        /\ req[r].retries = 2 /\ req[r].backoff = 1
        /\ Len(Dials(req[r])) = 2
        /\ req[r].conn = "open"

\* The rows of t stored under one PRODUCT_ID.
SameIdRows(t, id) == {k \in DOMAIN t : t[k].product_id = id}

\* C11: identifier generation is not safe under concurrent inserts.  Two
\* POST /product requests that both read MAX(PRODUCT_ID) before either of
\* them inserts compute the same new_id; when both are answered 201 they
\* return that same identifier and the table holds a row of each of them
\* under it, so its identifiers are no longer pairwise distinct.
C11_ConcurrentInsertsCollide ==
    \A r, q \in Reqs :
        (/\ r # q
         /\ req[r].kind = "insert" /\ req[q].kind = "insert"
         /\ req[r].pc = "done" /\ req[q].pc = "done"
         /\ req[r].resp.status = 201 /\ req[q].resp.status = 201
         /\ req[r].max_id = req[q].max_id) =>
            /\ req[r].resp.product_id = req[q].resp.product_id
            /\ req[r].resp.product_id = req[r].max_id + 1
            /\ Cardinality(SameIdRows(table, req[r].resp.product_id)) >= 2
            /\ Cardinality(Ids(table)) < Len(table)

C11_Witness ==
    /\ threaded
    /\ \A r \in Reqs :
          /\ req[r].kind = "insert" /\ req[r].pc = "done"
          /\ req[r].resp.status = 201 /\ req[r].resp.product_id = 1
    /\ Len(table) = 2
    /\ table[1].product_id = 1 /\ table[2].product_id = 1

====
